---- MODULE Spec2Model ----
(***************************************************************************)
(* Model of sns-sdk  non_blocking/subdomain.rs :: get_sub_registrar_info,  *)
(* the lookup that derives the registrar address of a domain, reads the    *)
(* account stored there through the RPC client, compares byte 0 with the   *)
(* Registrar tag and hands the whole buffer to the borsh decoder.          *)
(***************************************************************************)
EXTENDS Integers, Sequences, FiniteSets, TLC

\* ---------------------------------------------------------------- bounds
MaxLen == 3      \* longest account payload, in bytes
MaxByte == 2     \* largest byte value that occurs in a payload
NumProcs == 2    \* concurrent invocations of get_sub_registrar_info

\* ------------------------------------------------------- program constants
\* SubRegistrarAccountTag::Registrar as u8
RegistrarTag == 1
\* the other variants of SubRegistrarAccountTag the model keeps
TagValues == {0, RegistrarTag, 2}

SUB_REGISTRAR_PROGRAM_ID == "sub_registrar::ID"

\* ------------------------------------------------------------- data model
Bytes == 0 .. MaxByte
Payloads == UNION {[1 .. n -> Bytes] : n \in 0 .. MaxLen}

ValidDomains == {"example", "sub.example"}
Domains == ValidDomains \cup {"a.b.c.d"}

\* crate::derivation::get_domain_key : &str -> Result<Pubkey, SnsError>
get_domain_key(d) ==
    IF d \in ValidDomains
    THEN [ok |-> TRUE, key |-> <<"domain_key", d>>, err |-> "none"]
    ELSE [ok |-> FALSE, key |-> <<"domain_key", "">>, err |-> "InvalidDomain"]

\* Registrar::find_key(&key, &program_id).0 : a program derived address
find_key(key, program) == <<"registrar", key, program>>

NoKey == <<"registrar", <<"domain_key", "">>, "">>
Addresses ==
    {find_key(get_domain_key(d).key, SUB_REGISTRAR_PROGRAM_ID) : d \in ValidDomains}

\* what the ledger holds at an address: no account, or an account's data
Absent == [exists |-> FALSE, data |-> <<>>]
Account(bytes) == [exists |-> TRUE, data |-> bytes]
Entries == {Absent} \cup {Account(b) : b \in Payloads}

\* the Registrar record (tag first, per the schema's own framing)
NoRecord == [tag |-> -1, nonce |-> -1, allow_revoke |-> FALSE]
Records == [tag : {RegistrarTag}, nonce : Bytes, allow_revoke : BOOLEAN]

\* borsh serialization of a Registrar
Encode(r) == <<r.tag, r.nonce, IF r.allow_revoke THEN 1 ELSE 0>>

\* Registrar::deserialize(&mut &[u8]) : reads fields front to back, fails on
\* a short buffer, an unknown enum variant or a bool byte other than 0/1, and
\* leaves bytes after the last field unread.
deserialize(buf) ==
    IF Len(buf) < 1 THEN [ok |-> FALSE, rec |-> NoRecord]
    ELSE IF buf[1] \notin TagValues THEN [ok |-> FALSE, rec |-> NoRecord]
    ELSE IF Len(buf) < 2 THEN [ok |-> FALSE, rec |-> NoRecord]
    ELSE IF Len(buf) < 3 THEN [ok |-> FALSE, rec |-> NoRecord]
    ELSE IF buf[3] \notin {0, 1} THEN [ok |-> FALSE, rec |-> NoRecord]
    ELSE [ok |-> TRUE,
          rec |-> [tag |-> buf[1], nonce |-> buf[2], allow_revoke |-> (buf[3] = 1)]]

\* RpcClient::get_account_data : the node's answer for one read request
get_account_data(entry, up) ==
    IF ~up THEN [ok |-> FALSE, data |-> <<>>, err |-> "transport"]
    ELSE IF ~entry.exists THEN [ok |-> FALSE, data |-> <<>>, err |-> "no_account"]
    ELSE [ok |-> TRUE, data |-> entry.data, err |-> "none"]

\* From<ClientError> for SnsError, applied by `?` on the fetch
FromClientError(e) ==
    IF e = "no_account" THEN "AccountNotFound" ELSE "AccountUnreachable"

\* From<std::io::Error> for SnsError, applied by `?` on the decode
FromIoError == "DecodeError"

\* Result<Registrar, SnsError>, plus the unwinding of a panic
Pending == [kind |-> "Pending", err |-> "none", rec |-> NoRecord]
Ok(r) == [kind |-> "Ok", err |-> "none", rec |-> r]
Err(e) == [kind |-> "Err", err |-> e, rec |-> NoRecord]
Panic == [kind |-> "Panic", err |-> "none", rec |-> NoRecord]

\* ------------------------------------------------------------------ state
VARIABLES
    ledger,         \* address -> entry: the remote ledger
    pc,             \* invocation -> position in get_sub_registrar_info
    domain,         \* invocation -> the `domain` argument
    registrar_key,  \* invocation -> the local `registrar_key`
    account,        \* invocation -> the local `account` buffer
    outcome,        \* invocation -> what the call returned
    steps,          \* invocation -> the steps it has run, in order
    seen,           \* invocation -> whether it read, and what the node answered from
    prev            \* invocation -> the previous call kept by the caller

vars == <<ledger, pc, domain, registrar_key, account, outcome, steps, seen, prev>>

Procs == 1 .. NumProcs
Terminal == {"done", "panicked"}
NotRead == [read |-> FALSE, up |-> FALSE, entry |-> Absent]
NoPrev == [valid |-> FALSE, domain |-> "", key |-> NoKey, seen |-> NotRead,
           outcome |-> Pending]

InitLocals ==
    /\ pc = [p \in Procs |-> "idle"]
    /\ domain = [p \in Procs |-> ""]
    /\ registrar_key = [p \in Procs |-> NoKey]
    /\ account = [p \in Procs |-> <<>>]
    /\ outcome = [p \in Procs |-> Pending]
    /\ steps = [p \in Procs |-> <<>>]
    /\ seen = [p \in Procs |-> NotRead]
    /\ prev = [p \in Procs |-> NoPrev]

\* ---------------------------------------------------------------- actions
\* the caller invokes get_sub_registrar_info(rpc_client, d)
Call(p, d) ==
    /\ pc[p] = "idle"
    /\ pc' = [pc EXCEPT ![p] = "derive"]
    /\ domain' = [domain EXCEPT ![p] = d]
    /\ UNCHANGED <<ledger, registrar_key, account, outcome, steps, seen, prev>>

\* Derive with the `?` on get_domain_key lost: an invalid domain falls back
\* to a default key and the pipeline goes on
Derive_noabort(p) ==
    /\ pc[p] = "derive"
    /\ steps' = [steps EXCEPT ![p] = Append(@, "derive")]
    /\ LET k == get_domain_key(domain[p]) IN
         registrar_key' = [registrar_key EXCEPT ![p] =
             IF k.ok THEN find_key(k.key, SUB_REGISTRAR_PROGRAM_ID)
             ELSE CHOOSE a \in Addresses : TRUE]
    /\ pc' = [pc EXCEPT ![p] = "fetch"]
    /\ UNCHANGED <<ledger, domain, account, outcome, seen, prev>>

\* Derive with an address that depends on what the caller did before
Derive_unstable(p) ==
    /\ pc[p] = "derive"
    /\ steps' = [steps EXCEPT ![p] = Append(@, "derive")]
    /\ LET k == get_domain_key(domain[p])
           a == find_key(k.key, SUB_REGISTRAR_PROGRAM_ID)
       IN
         IF k.ok
         THEN /\ registrar_key' = [registrar_key EXCEPT ![p] =
                    IF prev[p].valid /\ prev[p].key = a
                    THEN CHOOSE b \in Addresses : b # a
                    ELSE a]
              /\ pc' = [pc EXCEPT ![p] = "fetch"]
              /\ UNCHANGED outcome
         ELSE /\ outcome' = [outcome EXCEPT ![p] = Err(k.err)]
              /\ pc' = [pc EXCEPT ![p] = "done"]
              /\ UNCHANGED registrar_key
    /\ UNCHANGED <<ledger, domain, account, seen, prev>>

\* let key = get_domain_key(domain)?; let registrar_key = find_key(..).0;
Derive(p) ==
    /\ pc[p] = "derive"
    /\ steps' = [steps EXCEPT ![p] = Append(@, "derive")]
    /\ LET k == get_domain_key(domain[p]) IN
         IF k.ok
         THEN /\ registrar_key' =
                    [registrar_key EXCEPT ![p] = find_key(k.key, SUB_REGISTRAR_PROGRAM_ID)]
              /\ pc' = [pc EXCEPT ![p] = "fetch"]
              /\ UNCHANGED outcome
         ELSE /\ outcome' = [outcome EXCEPT ![p] = Err(k.err)]
              /\ pc' = [pc EXCEPT ![p] = "done"]
              /\ UNCHANGED registrar_key
    /\ UNCHANGED <<ledger, domain, account, seen, prev>>

\* Fetch reporting every failed read as the same error
Fetch_conflate(p) ==
    /\ pc[p] = "fetch"
    /\ steps' = [steps EXCEPT ![p] = Append(@, "fetch")]
    /\ \E up \in BOOLEAN :
         LET entry == ledger[registrar_key[p]]
             r == get_account_data(entry, up)
         IN /\ seen' = [seen EXCEPT ![p] =
                         [read |-> TRUE, up |-> up, entry |-> IF up THEN entry ELSE Absent]]
            /\ IF r.ok
               THEN /\ account' = [account EXCEPT ![p] = r.data]
                    /\ pc' = [pc EXCEPT ![p] = "tagcheck"]
                    /\ UNCHANGED outcome
               ELSE /\ outcome' = [outcome EXCEPT ![p] = Err("AccountUnreachable")]
                    /\ pc' = [pc EXCEPT ![p] = "done"]
                    /\ UNCHANGED account
    /\ UNCHANGED <<ledger, domain, registrar_key, prev>>

\* Fetch that reads again when the node did not answer
Fetch_retry(p) ==
    /\ pc[p] = "fetch"
    /\ steps' = [steps EXCEPT ![p] = Append(@, "fetch")]
    /\ \E up \in BOOLEAN :
         LET entry == ledger[registrar_key[p]]
             r == get_account_data(entry, up)
         IN /\ seen' = [seen EXCEPT ![p] =
                         [read |-> TRUE, up |-> up, entry |-> IF up THEN entry ELSE Absent]]
            /\ IF r.ok
               THEN /\ account' = [account EXCEPT ![p] = r.data]
                    /\ pc' = [pc EXCEPT ![p] = "tagcheck"]
                    /\ UNCHANGED outcome
               ELSE IF r.err = "transport" /\ Len(steps[p]) < 2
               THEN UNCHANGED <<pc, account, outcome>>
               ELSE /\ outcome' = [outcome EXCEPT ![p] = Err(FromClientError(r.err))]
                    /\ pc' = [pc EXCEPT ![p] = "done"]
                    /\ UNCHANGED account
    /\ UNCHANGED <<ledger, domain, registrar_key, prev>>

\* let account = rpc_client.get_account_data(&registrar_key).await?;
Fetch(p) ==
    /\ pc[p] = "fetch"
    /\ steps' = [steps EXCEPT ![p] = Append(@, "fetch")]
    /\ \E up \in BOOLEAN :
         LET entry == ledger[registrar_key[p]]
             r == get_account_data(entry, up)
         IN /\ seen' = [seen EXCEPT ![p] =
                         [read |-> TRUE, up |-> up, entry |-> IF up THEN entry ELSE Absent]]
            /\ IF r.ok
               THEN /\ account' = [account EXCEPT ![p] = r.data]
                    /\ pc' = [pc EXCEPT ![p] = "tagcheck"]
                    /\ UNCHANGED outcome
               ELSE /\ outcome' = [outcome EXCEPT ![p] = Err(FromClientError(r.err))]
                    /\ pc' = [pc EXCEPT ![p] = "done"]
                    /\ UNCHANGED account
    /\ UNCHANGED <<ledger, domain, registrar_key, prev>>

\* TagCheck with the comparison lost: every non-empty payload is decoded
TagCheck_unchecked(p) ==
    /\ pc[p] = "tagcheck"
    /\ steps' = [steps EXCEPT ![p] = Append(@, "tagcheck")]
    /\ IF Len(account[p]) = 0
       THEN /\ outcome' = [outcome EXCEPT ![p] = Panic]
            /\ pc' = [pc EXCEPT ![p] = "panicked"]
       ELSE /\ pc' = [pc EXCEPT ![p] = "decode"]
            /\ UNCHANGED outcome
    /\ UNCHANGED <<ledger, domain, registrar_key, account, seen, prev>>

\* if account[0] != expected_tag as u8 { return Err(InvalidSubRegistrar) }
\* (indexing an empty Vec panics)
TagCheck(p) ==
    /\ pc[p] = "tagcheck"
    /\ steps' = [steps EXCEPT ![p] = Append(@, "tagcheck")]
    /\ IF Len(account[p]) = 0
       THEN /\ outcome' = [outcome EXCEPT ![p] = Panic]
            /\ pc' = [pc EXCEPT ![p] = "panicked"]
       ELSE IF account[p][1] # RegistrarTag
       THEN /\ outcome' = [outcome EXCEPT ![p] = Err("InvalidSubRegistrar")]
            /\ pc' = [pc EXCEPT ![p] = "done"]
       ELSE /\ pc' = [pc EXCEPT ![p] = "decode"]
            /\ UNCHANGED outcome
    /\ UNCHANGED <<ledger, domain, registrar_key, account, seen, prev>>

\* Decode handing the decoder the bytes after the tag (&account[1..])
Decode_skiptag(p) ==
    /\ pc[p] = "decode"
    /\ steps' = [steps EXCEPT ![p] = Append(@, "decode")]
    /\ LET r == deserialize(Tail(account[p])) IN
         outcome' = [outcome EXCEPT ![p] = IF r.ok THEN Ok(r.rec) ELSE Err(FromIoError)]
    /\ pc' = [pc EXCEPT ![p] = "done"]
    /\ UNCHANGED <<ledger, domain, registrar_key, account, seen, prev>>

\* Decode with unwrap_or_default() in place of `?`
Decode_default(p) ==
    /\ pc[p] = "decode"
    /\ steps' = [steps EXCEPT ![p] = Append(@, "decode")]
    /\ LET r == deserialize(account[p]) IN
         outcome' = [outcome EXCEPT ![p] =
             IF r.ok THEN Ok(r.rec)
             ELSE Ok([tag |-> 0, nonce |-> 0, allow_revoke |-> FALSE])]
    /\ pc' = [pc EXCEPT ![p] = "done"]
    /\ UNCHANGED <<ledger, domain, registrar_key, account, seen, prev>>

\* Decode reading the account a second time instead of the fetched buffer
Decode_reread(p) ==
    /\ pc[p] = "decode"
    /\ steps' = [steps EXCEPT ![p] = Append(@, "decode")]
    /\ LET r == deserialize(ledger[registrar_key[p]].data) IN
         outcome' = [outcome EXCEPT ![p] = IF r.ok THEN Ok(r.rec) ELSE Err(FromIoError)]
    /\ pc' = [pc EXCEPT ![p] = "done"]
    /\ UNCHANGED <<ledger, domain, registrar_key, account, seen, prev>>

\* let result = Registrar::deserialize(&mut (&account as &[u8]))?; Ok(result)
Decode(p) ==
    /\ pc[p] = "decode"
    /\ steps' = [steps EXCEPT ![p] = Append(@, "decode")]
    /\ LET r == deserialize(account[p]) IN
         outcome' = [outcome EXCEPT ![p] = IF r.ok THEN Ok(r.rec) ELSE Err(FromIoError)]
    /\ pc' = [pc EXCEPT ![p] = "done"]
    /\ UNCHANGED <<ledger, domain, registrar_key, account, seen, prev>>

\* the call is over: its locals are dropped, nothing is kept by the function
Return(p) ==
    /\ pc[p] \in Terminal
    /\ pc' = [pc EXCEPT ![p] = "idle"]
    /\ domain' = [domain EXCEPT ![p] = ""]
    /\ registrar_key' = [registrar_key EXCEPT ![p] = NoKey]
    /\ account' = [account EXCEPT ![p] = <<>>]
    /\ outcome' = [outcome EXCEPT ![p] = Pending]
    /\ steps' = [steps EXCEPT ![p] = <<>>]
    /\ seen' = [seen EXCEPT ![p] = NotRead]
    /\ UNCHANGED <<ledger, prev>>

\* ---------------------------------------------------------- specification
\* one caller, a ledger holding any entry at one registrar address
Init ==
    /\ \E a \in Addresses, e \in Entries :
         ledger = [x \in Addresses |-> IF x = a THEN e ELSE Absent]
    /\ InitLocals

Next ==
    \/ \E d \in Domains : Call(1, d)
    \/ Derive(1)
    \/ Fetch(1)
    \/ TagCheck(1)
    \/ Decode(1)
    \/ Return(1)

Spec == Init /\ [][Next]_vars

\* ------------------------------------------- ledger updates and callers
\* account contents other programs write while lookups run: one payload of
\* each kind the pipeline tells apart, and the encodings of some records
SampleRecords == {r \in Records : r.nonce = 0 /\ r.allow_revoke}
SamplePayloads ==
    {<<>>, <<0>>, <<RegistrarTag>>} \cup {Encode(r) : r \in SampleRecords}
SampleEntries == {Absent} \cup {Account(b) : b \in SamplePayloads}

\* another transaction creates, rewrites or closes the account at address a
LedgerWrite(a, e) ==
    /\ ledger[a] # e
    /\ ledger' = [ledger EXCEPT ![a] = e]
    /\ UNCHANGED <<pc, domain, registrar_key, account, outcome, steps, seen, prev>>

\* the caller keeps the finished call's result next to the one it makes next
ReturnKeep(p) ==
    /\ pc[p] \in Terminal
    /\ prev' = [prev EXCEPT ![p] =
                  [valid |-> TRUE, domain |-> domain[p], key |-> registrar_key[p],
                   seen |-> seen[p], outcome |-> outcome[p]]]
    /\ pc' = [pc EXCEPT ![p] = "idle"]
    /\ domain' = [domain EXCEPT ![p] = ""]
    /\ registrar_key' = [registrar_key EXCEPT ![p] = NoKey]
    /\ account' = [account EXCEPT ![p] = <<>>]
    /\ outcome' = [outcome EXCEPT ![p] = Pending]
    /\ steps' = [steps EXCEPT ![p] = <<>>]
    /\ seen' = [seen EXCEPT ![p] = NotRead]
    /\ UNCHANGED ledger

InitEmptyLedger ==
    /\ ledger = [x \in Addresses |-> Absent]
    /\ InitLocals

\* several invocations interleaved with each other and with ledger updates
ConcNext ==
    \/ \E p \in Procs, d \in Domains : Call(p, d)
    \/ \E p \in Procs : Derive(p)
    \/ \E p \in Procs : Fetch(p)
    \/ \E p \in Procs : TagCheck(p)
    \/ \E p \in Procs : Decode(p)
    \/ \E p \in Procs : Return(p)
    \/ \E a \in Addresses, e \in SampleEntries : LedgerWrite(a, e)

ConcSpec == InitEmptyLedger /\ [][ConcNext]_vars

\* one caller making call after call, the ledger updated in between
IdemNext ==
    \/ \E d \in Domains : Call(1, d)
    \/ Derive(1)
    \/ Fetch(1)
    \/ TagCheck(1)
    \/ Decode(1)
    \/ ReturnKeep(1)
    \/ \E a \in Addresses, e \in SampleEntries : LedgerWrite(a, e)

IdemSpec == InitEmptyLedger /\ [][IdemNext]_vars

\* ------------------------------------------------------------- properties
Pipeline == <<"derive", "fetch", "tagcheck", "decode">>
Count(step, seq) == Cardinality({i \in DOMAIN seq : seq[i] = step})
IsPrefix(s, t) == Len(s) <= Len(t) /\ \A i \in 1 .. Len(s) : s[i] = t[i]

\* the node answered the read of invocation p with the data of an account
Fetched(p) == seen[p].read /\ seen[p].up /\ seen[p].entry.exists
FetchedData(p) == seen[p].entry.data

ErrorKinds ==
    {"InvalidDomain", "AccountUnreachable", "AccountNotFound", "MalformedAccount",
     "InvalidSubRegistrar", "DecodeError"}
AllRecords == [tag : TagValues, nonce : Bytes, allow_revoke : BOOLEAN]

\* C1: the decoder runs only after byte 0 of the fetched payload was compared
\* with the Registrar tag and found equal; a payload with another first byte
\* ends in InvalidSubRegistrar with the decoder never called, and a record is
\* returned only from a payload whose first byte is the tag.
C1_DecodeOnlyAfterTagMatch ==
    \A p \in Procs :
        /\ (pc[p] = "decode" \/ Count("decode", steps[p]) > 0) =>
              /\ Count("tagcheck", steps[p]) = 1
              /\ Fetched(p)
              /\ Len(FetchedData(p)) > 0
              /\ FetchedData(p)[1] = RegistrarTag
        /\ (/\ pc[p] \in Terminal
            /\ Fetched(p)
            /\ Len(FetchedData(p)) > 0
            /\ FetchedData(p)[1] # RegistrarTag) =>
              /\ outcome[p] = Err("InvalidSubRegistrar")
              /\ Count("decode", steps[p]) = 0
        /\ outcome[p].kind = "Ok" =>
              /\ Fetched(p)
              /\ Len(FetchedData(p)) > 0
              /\ FetchedData(p)[1] = RegistrarTag

\* a wrongly tagged payload the decoder would have accepted was rejected
C1_Witness ==
    \E p \in Procs :
        /\ pc[p] = "done"
        /\ outcome[p] = Err("InvalidSubRegistrar")
        /\ deserialize(FetchedData(p)).ok
        /\ Count("decode", steps[p]) = 0

\* C2: a fetch that succeeds with an empty payload makes the call return the
\* MalformedAccount error as a value (no panic, no other error kind).
C2_EmptyPayloadIsMalformedAccount ==
    \A p \in Procs :
        (pc[p] \in Terminal /\ Fetched(p) /\ FetchedData(p) = <<>>) =>
            outcome[p] = Err("MalformedAccount")

C4_ExactlyOneOutcome ==
    \A p \in Procs :
        /\ pc[p] # "panicked"
        /\ pc[p] = "done" =>
              \/ /\ outcome[p].kind = "Ok"
                 /\ outcome[p].err = "none"
                 /\ outcome[p].rec \in AllRecords
              \/ /\ outcome[p].kind = "Err"
                 /\ outcome[p].err \in ErrorKinds
                 /\ outcome[p].rec = NoRecord

\* C5: a call issues at most one remote read, and exactly one when address
\* derivation succeeded, whatever the outcome.
C5_AtMostOneRead ==
    \A p \in Procs :
        /\ Count("fetch", steps[p]) <= 1
        /\ pc[p] \in Terminal =>
              Count("fetch", steps[p]) = IF get_domain_key(domain[p]).ok THEN 1 ELSE 0

\* a call that failed after its read, having read once
C5_Witness ==
    \E p \in Procs :
        /\ pc[p] = "done"
        /\ outcome[p] = Err("AccountUnreachable")
        /\ Count("fetch", steps[p]) = 1

\* C6: when the ledger holds, at the domain's registrar address, the
\* Registrar tag byte followed by the encoding of a record r, the call
\* succeeds and returns r.
C6_RoundTrip ==
    \A p \in Procs : \A r \in Records :
        (/\ pc[p] \in Terminal
         /\ Fetched(p)
         /\ FetchedData(p) = <<RegistrarTag>> \o Tail(Encode(r))) =>
            outcome[p] = Ok(r)

C6_Witness ==
    \E p \in Procs :
        /\ pc[p] = "done"
        /\ outcome[p].kind = "Ok"
        /\ outcome[p].rec.allow_revoke
        /\ outcome[p].rec \in Records
        /\ FetchedData(p) = Encode(outcome[p].rec)

\* C7: a non-empty payload with the Registrar tag that the decoder rejects
\* ends the call in DecodeError, with no record, and DecodeError is returned
\* for nothing else.
C7_DecodeError ==
    \A p \in Procs :
        /\ (/\ pc[p] \in Terminal
            /\ Fetched(p)
            /\ Len(FetchedData(p)) > 0
            /\ FetchedData(p)[1] = RegistrarTag
            /\ ~deserialize(FetchedData(p)).ok) =>
              /\ outcome[p] = Err("DecodeError")
              /\ outcome[p].err \notin {"InvalidSubRegistrar", "MalformedAccount"}
              /\ outcome[p].rec = NoRecord
        /\ outcome[p].err = "DecodeError" =>
              /\ Fetched(p)
              /\ Len(FetchedData(p)) > 0
              /\ FetchedData(p)[1] = RegistrarTag
              /\ ~deserialize(FetchedData(p)).ok

\* a truncated Registrar payload was refused by the decoder
C7_Witness ==
    \E p \in Procs :
        /\ pc[p] = "done"
        /\ outcome[p] = Err("DecodeError")
        /\ FetchedData(p)[1] = RegistrarTag
        /\ Len(FetchedData(p)) < 3

C9_StrictOrder ==
    \A p \in Procs :
        /\ IsPrefix(steps[p], Pipeline)
        /\ (Len(steps[p]) >= 1 /\ ~get_domain_key(domain[p]).ok) =>
              steps[p] = <<"derive">>
        /\ (seen[p].read /\ ~(seen[p].up /\ seen[p].entry.exists)) =>
              steps[p] = <<"derive", "fetch">>

C9_Witness ==
    \E p \in Procs :
        /\ pc[p] = "done"
        /\ outcome[p] = Err("InvalidDomain")
        /\ steps[p] = <<"derive">>
        /\ ~seen[p].read

\* the pipeline applied to one domain and one answer of the node
ResolveOn(d, s) ==
    IF ~get_domain_key(d).ok THEN Err("InvalidDomain")
    ELSE IF ~s.up THEN Err("AccountUnreachable")
    ELSE IF ~s.entry.exists THEN Err("AccountNotFound")
    ELSE IF Len(s.entry.data) = 0 THEN Panic
    ELSE IF s.entry.data[1] # RegistrarTag THEN Err("InvalidSubRegistrar")
    ELSE IF deserialize(s.entry.data).ok THEN Ok(deserialize(s.entry.data).rec)
    ELSE Err("DecodeError")

\* C10: under any interleaving of calls and ledger updates, a call's address
\* is the one derived from its own domain, the bytes it checks and decodes
\* are those of its own single read, and its outcome is the pipeline applied
\* to what the ledger held at that read.
C10_OwnReadDecides ==
    \A p \in Procs :
        /\ (pc[p] \in {"fetch", "tagcheck", "decode"} \cup Terminal
              /\ get_domain_key(domain[p]).ok) =>
              registrar_key[p] = find_key(get_domain_key(domain[p]).key,
                                          SUB_REGISTRAR_PROGRAM_ID)
        /\ pc[p] \in {"tagcheck", "decode"} =>
              (Fetched(p) /\ account[p] = FetchedData(p))
        /\ pc[p] \in Terminal => outcome[p] = ResolveOn(domain[p], seen[p])

\* a call succeeded on the record it read although the account has been
\* rewritten since, while another call is between its read and its decode
C10_Witness ==
    \E p, q \in Procs :
        /\ p # q
        /\ pc[p] = "done"
        /\ outcome[p].kind = "Ok"
        /\ ledger[registrar_key[p]] # seen[p].entry
        /\ pc[q] = "decode"
        /\ registrar_key[q] = registrar_key[p]
        /\ ledger[registrar_key[q]] # seen[q].entry
====
